---- MODULE Spec2Model ----
(***************************************************************************)
(* Model of hello_database/init_db.py: the SQLite initializer.             *)
(*                                                                         *)
(* One run of main() is a walk of pc through the statements of main(),     *)
(* _connect(), _create_schema() and _write_helper_files().  The database   *)
(* file is the record db (its committed contents); work is what the open   *)
(* connection sees (db plus the statements of its open transaction).       *)
(* Every call into sqlite3 may raise (database locked, I/O error, corrupt  *)
(* file): that is the choice "fault" in the actions.  Object names are     *)
(* tuples of one-character strings, so that the LIKE of the statistics     *)
(* query is computed character by character.  The automatic indexes that   *)
(* the engine makes for UNIQUE columns are left out of sqlite_master.      *)
(***************************************************************************)
EXTENDS Integers, Sequences, FiniteSets, TLC

VARIABLES
    pc,           \* position of main()
    run,          \* number of the current invocation of the script
    now,          \* CURRENT_TIMESTAMP of the current invocation
    fileExists,   \* myapp.db exists on disk
    existed,      \* what db_path.exists() returned at line 151
    db,           \* committed contents of myapp.db
    work,         \* contents as seen by the open connection
    inTx,         \* the connection has an open (implicit) transaction
    open,         \* connections that are open (not closed)
    conn,         \* main()'s local conn: a connection number, 0 if unbound
    cnew,         \* _connect()'s local conn, 0 when no _connect frame is alive
    connectCalls, \* calls of _connect in this run
    opened,       \* connections sqlite3.connect returned in this run
    exc,          \* the exception that is propagating out of main, or "none"
    faulted,      \* the environment made an sqlite3 call fail in this run
    checkFailed,  \* the accessibility check caught an exception in this run
    warnings,     \* "Warning: ..." lines printed in this run
    success,      \* the success report was printed in this run
    table_count,  \* main()'s local table_count, -1 while unbound
    logs_count,   \* main()'s local logs_count, -1 while unbound
    dirReadOnly,  \* the container directory refuses the creation of files
    vizDir,       \* the directory db_visualizer exists
    files,        \* helper files present on disk
    written,      \* helper files written in this run
    goodRuns      \* invocations that ran to completion

vars == <<pc, run, now, fileExists, existed, db, work, inTx, open, conn, cnew,
          connectCalls, opened, exc, faulted, checkFailed, warnings, success,
          table_count, logs_count, dirReadOnly, vizDir, files, written,
          goodRuns>>

\* Number of invocations of the script in one behaviour.
MaxRuns == 2

----------------------------------------------------------------------------
(* Names *)

AppInfo == <<"a","p","p","_","i","n","f","o">>
Users == <<"u","s","e","r","s">>
RequestLogs == <<"r","e","q","u","e","s","t","_","l","o","g","s">>
SqliteSequence == <<"s","q","l","i","t","e","_","s","e","q","u","e","n","c","e">>
IdxTimestamp ==
    <<"i","d","x","_","r","e","q","u","e","s","t","_","l","o","g","s","_",
      "t","i","m","e","s","t","a","m","p">>
IdxRoute ==
    <<"i","d","x","_","r","e","q","u","e","s","t","_","l","o","g","s","_","r","o","u","t","e">>

\* Tables another program may have left in the file before a run.
Notes == <<"n","o","t","e","s">>
SqliteX == <<"S","q","l","i","t","e","x">>
SqliteStat1 == <<"s","q","l","i","t","e","_","s","t","a","t","1">>
ExtraTables == {Notes, SqliteX, SqliteStat1}

TableObj(name) == [type |-> "table", name |-> name, tbl_name |-> name]
IndexObj(name, tbl) == [type |-> "index", name |-> name, tbl_name |-> tbl]

SchemaTables == {AppInfo, Users, RequestLogs}

EmptyDb == [master |-> {}, rows |-> [t \in SchemaTables |-> {}], seq |-> 0]

HasTable(d, name) == \E o \in d.master : o.type = "table" /\ o.name = name
HasIndex(d, name) == \E o \in d.master : o.type = "index" /\ o.name = name

----------------------------------------------------------------------------
(* The statements of _create_schema *)

StmtCreateAppInfo ==
    [op |-> "create_table", name |-> AppInfo, autoinc |-> TRUE, ifNotExists |-> TRUE]
StmtCreateUsers ==
    [op |-> "create_table", name |-> Users, autoinc |-> TRUE, ifNotExists |-> TRUE]
StmtCreateRequestLogs ==
    [op |-> "create_table", name |-> RequestLogs, autoinc |-> FALSE, ifNotExists |-> TRUE]
\* Variant: the index statement without IF NOT EXISTS.
StmtNoIfNotExists ==
    [op |-> "create_index", name |-> IdxTimestamp, tbl |-> RequestLogs, ifNotExists |-> FALSE]
StmtCreateIdxTimestamp ==
    [op |-> "create_index", name |-> IdxTimestamp, tbl |-> RequestLogs, ifNotExists |-> TRUE]
StmtCreateIdxRoute ==
    [op |-> "create_index", name |-> IdxRoute, tbl |-> RequestLogs, ifNotExists |-> TRUE]

Seeds == <<
    [key |-> "project_name", value |-> "hello_database"],
    [key |-> "version", value |-> "0.1.0"],
    [key |-> "author", value |-> "John Doe"],
    [key |-> "description",
     value |-> "SQLite DB backing the Hello+Location+Temperature app with request logging."] >>

SeedKeys == {Seeds[i].key : i \in DOMAIN Seeds}

StmtUpsert(i) ==
    [op |-> "insert_or_replace", key |-> Seeds[i].key, value |-> Seeds[i].value]

----------------------------------------------------------------------------
(* The engine *)

MaxOf(S) == IF S = {} THEN 0 ELSE CHOOSE m \in S : \A x \in S : x <= m

\* Variant: the table is made anew (DROP TABLE IF EXISTS, then CREATE TABLE).
CreateTableDropsRows(d, s) ==
    [db |-> [d EXCEPT !.master = @ \cup {TableObj(s.name)}
                                   \cup (IF s.autoinc THEN {TableObj(SqliteSequence)} ELSE {}),
                      !.rows[s.name] = {}],
     err |-> FALSE]
\* CREATE TABLE [IF NOT EXISTS]: a table that exists is left alone, with its
\* rows; an AUTOINCREMENT table brings sqlite_sequence with it.
CreateTable(d, s) ==
    IF HasTable(d, s.name)
    THEN [db |-> d, err |-> ~s.ifNotExists]
    ELSE [db |-> [d EXCEPT !.master = @ \cup {TableObj(s.name)}
                                        \cup (IF s.autoinc THEN {TableObj(SqliteSequence)} ELSE {})],
          err |-> FALSE]

\* CREATE INDEX [IF NOT EXISTS]
CreateIndex(d, s) ==
    IF HasIndex(d, s.name)
    THEN [db |-> d, err |-> ~s.ifNotExists]
    ELSE IF ~HasTable(d, s.tbl)
    THEN [db |-> d, err |-> TRUE]
    ELSE [db |-> [d EXCEPT !.master = @ \cup {IndexObj(s.name, s.tbl)}], err |-> FALSE]

\* The rowid an AUTOINCREMENT table gives a new row.
NextRowid(d) == MaxOf({d.seq} \cup {r.id : r \in d.rows[AppInfo]}) + 1

\* Variant: INSERT OR IGNORE, which keeps the row that holds the key.
InsertOrIgnore(d, s, t) ==
    IF \E r \in d.rows[AppInfo] : r.key = s.key
    THEN [db |-> d, err |-> FALSE]
    ELSE [db |-> [d EXCEPT !.rows[AppInfo] = @ \cup
                     {[id |-> NextRowid(d), key |-> s.key, value |-> s.value, created_at |-> t]},
                           !.seq = NextRowid(d)],
          err |-> FALSE]
\* Variant: an insert that deletes no conflicting row (key not UNIQUE).
InsertNoDelete(d, s, t) ==
    [db |-> [d EXCEPT !.rows[AppInfo] = @ \cup
                {[id |-> NextRowid(d), key |-> s.key, value |-> s.value, created_at |-> t]},
                      !.seq = NextRowid(d)],
     err |-> FALSE]
\* INSERT OR REPLACE INTO app_info (key, value): the rows that conflict with
\* the new row on a UNIQUE column (key) or on the primary key are deleted,
\* then the new row is inserted with a fresh id and created_at.
InsertOrReplace(d, s, t) ==
    IF ~HasTable(d, AppInfo)
    THEN [db |-> d, err |-> TRUE]
    ELSE LET id == NextRowid(d)
             kept == {r \in d.rows[AppInfo] : r.key # s.key /\ r.id # id}
         IN [db |-> [d EXCEPT !.rows[AppInfo] =
                         kept \cup {[id |-> id, key |-> s.key, value |-> s.value,
                                     created_at |-> t]},
                              !.seq = id],
             err |-> FALSE]

Execute(d, s, t) ==
    CASE s.op = "create_table" -> CreateTable(d, s)
      [] s.op = "create_index" -> CreateIndex(d, s)
      [] s.op = "insert_or_replace" -> InsertOrReplace(d, s, t)

\* x LIKE pattern: % matches any run of characters, _ any one character,
\* every other character itself, without regard to case.
ToLower == ("S" :> "s") @@ ("Q" :> "q") @@ ("L" :> "l") @@ ("I" :> "i")
           @@ ("T" :> "t") @@ ("E" :> "e")
Lower(c) == IF c \in DOMAIN ToLower THEN ToLower[c] ELSE c

RECURSIVE Like(_, _)
Like(x, pat) ==
    IF pat = <<>> THEN x = <<>>
    ELSE IF Head(pat) = "%"
         THEN Like(x, Tail(pat)) \/ (x # <<>> /\ Like(Tail(x), pat))
    ELSE IF Head(pat) = "_"
         THEN x # <<>> /\ Like(Tail(x), Tail(pat))
    ELSE x # <<>> /\ Lower(Head(x)) = Lower(Head(pat)) /\ Like(Tail(x), Tail(pat))

SqlitePattern == <<"s","q","l","i","t","e","_","%">>

\* SELECT COUNT(*) FROM sqlite_master WHERE type='table' AND name NOT LIKE 'sqlite_%'
CountTables(d) ==
    Cardinality({o \in d.master : o.type = "table" /\ ~Like(o.name, SqlitePattern)})

\* SELECT COUNT(*) FROM request_logs
CountLogs(d) == Cardinality(d.rows[RequestLogs])

----------------------------------------------------------------------------
(* Initial states: the file system before the first invocation *)

SchemaMaster ==
    {TableObj(AppInfo), TableObj(Users), TableObj(RequestLogs), TableObj(SqliteSequence),
     IndexObj(IdxTimestamp, RequestLogs), IndexObj(IdxRoute, RequestLogs)}

\* Contents of app_info left by earlier use of the file, with the value of
\* sqlite_sequence that goes with them.
PriorAppInfos ==
    { [rows |-> {}, seq |-> 0],
      [rows |-> {[id |-> i, key |-> Seeds[i].key, value |-> Seeds[i].value, created_at |-> 0]
                   : i \in DOMAIN Seeds},
       seq |-> 4],
      [rows |-> {[id |-> 1, key |-> "version", value |-> "0.0.9", created_at |-> 0]},
       seq |-> 1],
      [rows |-> {[id |-> 1, key |-> "theme", value |-> "dark", created_at |-> 0],
                 [id |-> 3, key |-> "author", value |-> "Jane Roe", created_at |-> 0]},
       seq |-> 3] }

PriorUsers ==
    { {}, {[id |-> 1, username |-> "ann", email |-> "ann@example.org", created_at |-> 0]} }

\* A row of request_logs; the timestamp is kept within 32 bits.
PriorLogs ==
    { {}, {[id |-> 1, route |-> "/hello", timestamp |-> 1700000000, ip |-> "10.0.0.1",
            user_agent |-> "curl", location |-> "Oslo", temperature |-> 4, units |-> "C"]} }

PriorDbs ==
    { [master |-> {TableObj(n) : n \in extra}, rows |-> EmptyDb.rows, seq |-> 0]
        : extra \in SUBSET ExtraTables }
    \cup
    { [master |-> SchemaMaster \cup {TableObj(n) : n \in extra},
       rows |-> [t \in SchemaTables |->
                    IF t = AppInfo THEN a.rows ELSE IF t = Users THEN u ELSE l],
       seq |-> a.seq]
        : extra \in SUBSET ExtraTables, a \in PriorAppInfos, u \in PriorUsers, l \in PriorLogs }

Init ==
    /\ pc = "start"
    /\ run = 1
    /\ now = 1
    /\ fileExists \in BOOLEAN
    /\ db \in (IF fileExists THEN PriorDbs ELSE {EmptyDb})
    /\ work = db
    /\ inTx = FALSE
    /\ existed = FALSE
    /\ open = {}
    /\ conn = 0
    /\ cnew = 0
    /\ connectCalls = 0
    /\ opened = 0
    /\ exc = "none"
    /\ faulted = FALSE
    /\ checkFailed = FALSE
    /\ warnings = 0
    /\ success = FALSE
    /\ table_count = -1
    /\ logs_count = -1
    /\ dirReadOnly \in BOOLEAN
    /\ vizDir \in BOOLEAN
    /\ files = {}
    /\ written = {}
    /\ goodRuns = 0

----------------------------------------------------------------------------
(* main(), lines 148-162 *)

env == <<run, now, dirReadOnly>>
dbv == <<db, work, inTx>>
stats == <<table_count, logs_count>>
disk == <<vizDir, files, written>>

\* Variant: the accessibility check without the test of db_path.exists().
StartAlwaysChecks ==
    /\ pc = "start"
    /\ existed' = fileExists
    /\ pc' = "check_connect"
    /\ UNCHANGED <<env, dbv, stats, disk, fileExists, open, conn, cnew, connectCalls,
                   opened, exc, faulted, checkFailed, warnings, success, goodRuns>>
\* lines 148-162: resolve the path, branch on db_path.exists().
Start ==
    /\ pc = "start"
    /\ existed' = fileExists
    /\ pc' = IF fileExists THEN "check_connect" ELSE "schema_connect"
    /\ UNCHANGED <<env, dbv, stats, disk, fileExists, open, conn, cnew, connectCalls,
                   opened, exc, faulted, checkFailed, warnings, success, goodRuns>>

----------------------------------------------------------------------------
(* _connect(), lines 35-41, called at lines 155, 164 and 171 *)

\* Where main() goes on when _connect, called at the site, has returned.
AfterConnect(site) ==
    CASE site = "check" -> "check_select"
      [] site = "schema" -> "create_app_info"
      [] site = "stats" -> "stats_tables"

\* Variant: line 171 inside a try that swallows the exception.
OnConnectErrorSwallowed(site) ==
    CASE site = "check" -> "schema_connect"
      [] site = "schema" -> "aborted"
      [] site = "stats" -> "write_connection_txt"
\* Where main() goes on when the connection of the site raised: the try of
\* lines 154-160 catches everything, lines 164 and 171 are outside any try.
OnConnectError(site) ==
    CASE site = "check" -> "schema_connect"
      [] site = "schema" -> "aborted"
      [] site = "stats" -> "aborted"

\* The bookkeeping of an exception raised by the connection of the site.
RaiseAtConnect(site) ==
    /\ pc' = OnConnectError(site)
    /\ faulted' = TRUE
    /\ IF site = "check"
       THEN /\ checkFailed' = TRUE
            /\ warnings' = warnings + 1
            /\ exc' = exc
       ELSE /\ exc' = "connect_" \o site
            /\ UNCHANGED <<checkFailed, warnings>>

\* line 37: sqlite3.connect(str(db_path)); it creates the file if need be.
ConnectOpen(site) ==
    /\ pc = site \o "_connect"
    /\ connectCalls' = connectCalls + 1
    /\ \E fault \in BOOLEAN :
         IF fault
         THEN /\ RaiseAtConnect(site)
              /\ UNCHANGED <<fileExists, open, cnew, opened>>
         ELSE /\ opened' = opened + 1
              /\ cnew' = opened + 1
              /\ open' = open \cup {opened + 1}
              /\ fileExists' = TRUE
              /\ pc' = site \o "_pragmas"
              /\ UNCHANGED <<exc, faulted, checkFailed, warnings>>
    /\ UNCHANGED <<env, dbv, stats, disk, existed, conn, success, goodRuns>>

\* lines 39-41: the two PRAGMAs, then return conn.  When a PRAGMA raises the
\* connection is not closed; the frame of _connect, with its local conn, is
\* released when the handler of line 159 is done, and stays referenced by
\* the traceback when the exception leaves main().
ConnectPragmas(site) ==
    /\ pc = site \o "_pragmas"
    /\ \E fault \in BOOLEAN :
         IF fault
         THEN /\ RaiseAtConnect(site)
              /\ cnew' = IF site = "check" THEN 0 ELSE cnew
              /\ conn' = conn
         ELSE /\ conn' = cnew
              /\ cnew' = 0
              /\ pc' = AfterConnect(site)
              /\ UNCHANGED <<exc, faulted, checkFailed, warnings>>
    /\ UNCHANGED <<env, dbv, stats, disk, fileExists, existed, open, connectCalls,
                   opened, success, goodRuns>>

CheckConnect == ConnectOpen("check")
CheckPragmas == ConnectPragmas("check")
SchemaConnect == ConnectOpen("schema")
SchemaPragmas == ConnectPragmas("schema")
StatsConnect == ConnectOpen("stats")
StatsPragmas == ConnectPragmas("stats")

\* lines 156-160: SELECT 1, close, or the warning of the handler.
CheckSelect ==
    /\ pc = "check_select"
    /\ pc' = "schema_connect"
    /\ \E fault \in BOOLEAN :
         IF fault
         THEN /\ checkFailed' = TRUE
              /\ warnings' = warnings + 1
              /\ faulted' = TRUE
              /\ open' = open
         ELSE /\ open' = open \ {conn}
              /\ UNCHANGED <<checkFailed, warnings, faulted>>
    /\ UNCHANGED <<env, dbv, stats, disk, fileExists, existed, conn, cnew, connectCalls,
                   opened, exc, success, goodRuns>>

\* A connection object nothing refers to any more may be finalized, which
\* closes it; when, or whether, is up to the interpreter.
Finalize ==
    /\ \E c \in open \ {conn, cnew} : open' = open \ {c}
    /\ UNCHANGED <<pc, env, dbv, stats, disk, fileExists, existed, conn, cnew, connectCalls,
                   opened, exc, faulted, checkFailed, warnings, success, goodRuns>>

----------------------------------------------------------------------------
(* _create_schema(), lines 44-118, inside the try of lines 165-168 *)

\* cursor.execute(stmt) at position from.  The sqlite3 module begins a
\* transaction before an INSERT and none before a CREATE, so a CREATE takes
\* effect in the file at once and an INSERT at the commit.
ExecStep(from, stmt, to) ==
    /\ pc = from
    /\ \E fault \in BOOLEAN :
         LET r == Execute(work, stmt, now) IN
         IF fault \/ r.err
         THEN /\ pc' = "schema_finally"
              /\ exc' = "schema"
              /\ faulted' = (faulted \/ fault)
              /\ UNCHANGED dbv
         ELSE /\ pc' = to
              /\ work' = r.db
              /\ IF stmt.op = "insert_or_replace"
                 THEN inTx' = TRUE /\ db' = db
                 ELSE inTx' = inTx /\ db' = (IF inTx THEN db ELSE r.db)
              /\ UNCHANGED <<exc, faulted>>
    /\ UNCHANGED <<env, stats, disk, fileExists, existed, open, conn, cnew, connectCalls,
                   opened, checkFailed, warnings, success, goodRuns>>

CreateAppInfo == ExecStep("create_app_info", StmtCreateAppInfo, "create_users")
CreateUsers == ExecStep("create_users", StmtCreateUsers, "create_request_logs")
CreateRequestLogs ==
    ExecStep("create_request_logs", StmtCreateRequestLogs, "create_idx_timestamp")
CreateIdxTimestamp ==
    ExecStep("create_idx_timestamp", StmtCreateIdxTimestamp, "create_idx_route")
CreateIdxRoute == ExecStep("create_idx_route", StmtCreateIdxRoute, "seed_project_name")
SeedProjectName == ExecStep("seed_project_name", StmtUpsert(1), "seed_version")
SeedVersion == ExecStep("seed_version", StmtUpsert(2), "seed_author")
SeedAuthor == ExecStep("seed_author", StmtUpsert(3), "seed_description")
SeedDescription == ExecStep("seed_description", StmtUpsert(4), "commit")

\* line 118: conn.commit()
Commit ==
    /\ pc = "commit"
    /\ pc' = "schema_finally"
    /\ \E fault \in BOOLEAN :
         IF fault
         THEN /\ exc' = "schema"
              /\ faulted' = TRUE
              /\ UNCHANGED dbv
         ELSE /\ db' = work
              /\ work' = work
              /\ inTx' = FALSE
              /\ UNCHANGED <<exc, faulted>>
    /\ UNCHANGED <<env, stats, disk, fileExists, existed, open, conn, cnew, connectCalls,
                   opened, checkFailed, warnings, success, goodRuns>>

\* conn.close(): what the transaction has not committed is rolled back.
CloseConn ==
    /\ open' = open \ {conn}
    /\ work' = db
    /\ inTx' = FALSE
    /\ db' = db

\* Variant: except instead of finally, the exception is dropped.
SchemaFinallySwallows ==
    /\ pc = "schema_finally"
    /\ CloseConn
    /\ pc' = "stats_connect"
    /\ UNCHANGED <<env, stats, disk, fileExists, existed, conn, cnew, connectCalls,
                   opened, exc, faulted, checkFailed, warnings, success, goodRuns>>
\* lines 167-168: finally: conn.close(); an exception goes on out of main().
SchemaFinally ==
    /\ pc = "schema_finally"
    /\ CloseConn
    /\ pc' = IF exc = "none" THEN "stats_connect" ELSE "aborted"
    /\ UNCHANGED <<env, stats, disk, fileExists, existed, conn, cnew, connectCalls,
                   opened, exc, faulted, checkFailed, warnings, success, goodRuns>>

----------------------------------------------------------------------------
(* Statistics, lines 171-181 *)

\* lines 174-177
StatsTables ==
    /\ pc = "stats_tables"
    /\ \E fault \in BOOLEAN :
         IF fault
         THEN /\ pc' = "stats_finally"
              /\ exc' = "stats"
              /\ faulted' = TRUE
              /\ UNCHANGED table_count
         ELSE /\ pc' = "stats_logs"
              /\ table_count' = CountTables(work)
              /\ UNCHANGED <<exc, faulted>>
    /\ UNCHANGED <<env, dbv, logs_count, disk, fileExists, existed, open, conn, cnew,
                   connectCalls, opened, checkFailed, warnings, success, goodRuns>>

\* lines 178-179
StatsLogs ==
    /\ pc = "stats_logs"
    /\ pc' = "stats_finally"
    /\ \E fault \in BOOLEAN :
         IF fault \/ ~HasTable(work, RequestLogs)
         THEN /\ exc' = "stats"
              /\ faulted' = (faulted \/ fault)
              /\ UNCHANGED logs_count
         ELSE /\ logs_count' = CountLogs(work)
              /\ UNCHANGED <<exc, faulted>>
    /\ UNCHANGED <<env, dbv, table_count, disk, fileExists, existed, open, conn, cnew,
                   connectCalls, opened, checkFailed, warnings, success, goodRuns>>

\* lines 180-181
StatsFinally ==
    /\ pc = "stats_finally"
    /\ CloseConn
    /\ pc' = IF exc = "none" THEN "write_connection_txt" ELSE "aborted"
    /\ UNCHANGED <<env, stats, disk, fileExists, existed, conn, cnew, connectCalls,
                   opened, exc, faulted, checkFailed, warnings, success, goodRuns>>

----------------------------------------------------------------------------
(* _write_helper_files(), lines 121-143, and the report, lines 185-211 *)

\* lines 127-134 and 139-143: open(..., "w") and the writes, or the warning.
WriteHelper(from, file, to) ==
    /\ pc = from
    /\ pc' = to
    /\ IF dirReadOnly
       THEN /\ warnings' = warnings + 1
            /\ UNCHANGED <<files, written>>
       ELSE /\ files' = files \cup {file}
            /\ written' = written \cup {file}
            /\ UNCHANGED warnings
    /\ UNCHANGED <<env, dbv, stats, vizDir, fileExists, existed, open, conn, cnew,
                   connectCalls, opened, exc, faulted, checkFailed, success, goodRuns>>

WriteConnectionTxt ==
    WriteHelper("write_connection_txt", "db_connection.txt", "mkdir_visualizer")

\* lines 137-138: visualizer_dir.mkdir(parents=True, exist_ok=True), outside
\* both try blocks.
MkdirVisualizer ==
    /\ pc = "mkdir_visualizer"
    /\ IF vizDir
       THEN pc' = "write_sqlite_env" /\ UNCHANGED <<vizDir, exc>>
       ELSE IF dirReadOnly
            THEN pc' = "aborted" /\ exc' = "mkdir" /\ UNCHANGED vizDir
            ELSE pc' = "write_sqlite_env" /\ vizDir' = TRUE /\ UNCHANGED exc
    /\ UNCHANGED <<env, dbv, stats, files, written, fileExists, existed, open, conn, cnew,
                   connectCalls, opened, faulted, checkFailed, warnings, success, goodRuns>>

WriteSqliteEnv == WriteHelper("write_sqlite_env", "db_visualizer/sqlite.env", "report")

\* lines 185-211: the report, with table_count and logs_count, and the last
\* line "Script completed successfully."  The search for the sqlite3 CLI of
\* lines 199-209 only adds a hint to the output and swallows its own errors.
Report ==
    /\ pc = "report"
    /\ pc' = "done"
    /\ success' = TRUE
    /\ goodRuns' = goodRuns + 1
    /\ UNCHANGED <<env, dbv, stats, disk, fileExists, existed, open, conn, cnew,
                   connectCalls, opened, exc, faulted, checkFailed, warnings>>

\* The script is started again: a new process, with nothing of the last one
\* but the files.
Restart ==
    /\ pc \in {"done", "aborted"}
    /\ run < MaxRuns
    /\ pc' = "start"
    /\ run' = run + 1
    /\ now' = now + 1
    /\ existed' = FALSE
    /\ open' = {}
    /\ conn' = 0
    /\ cnew' = 0
    /\ connectCalls' = 0
    /\ opened' = 0
    /\ exc' = "none"
    /\ faulted' = FALSE
    /\ checkFailed' = FALSE
    /\ warnings' = 0
    /\ success' = FALSE
    /\ table_count' = -1
    /\ logs_count' = -1
    /\ written' = {}
    /\ UNCHANGED <<dbv, fileExists, dirReadOnly, vizDir, files, goodRuns>>

Next ==
    \/ Start
    \/ CheckConnect
    \/ CheckPragmas
    \/ CheckSelect
    \/ SchemaConnect
    \/ SchemaPragmas
    \/ CreateAppInfo
    \/ CreateUsers
    \/ CreateRequestLogs
    \/ CreateIdxTimestamp
    \/ CreateIdxRoute
    \/ SeedProjectName
    \/ SeedVersion
    \/ SeedAuthor
    \/ SeedDescription
    \/ Commit
    \/ SchemaFinally
    \/ StatsConnect
    \/ StatsPragmas
    \/ StatsTables
    \/ StatsLogs
    \/ StatsFinally
    \/ WriteConnectionTxt
    \/ MkdirVisualizer
    \/ WriteSqliteEnv
    \/ Report
    \/ Restart
    \/ Finalize

Spec == Init /\ [][Next]_vars

----------------------------------------------------------------------------
(* Properties *)

\* _create_schema has returned in this run.
SchemaApplied ==
    \/ pc \in {"stats_connect", "stats_pragmas", "stats_tables", "stats_logs",
                "stats_finally", "write_connection_txt", "mkdir_visualizer",
                "write_sqlite_env", "report", "done"}
    \/ pc = "schema_finally" /\ exc = "none"
    \/ pc = "aborted" /\ exc \in {"connect_stats", "stats", "mkdir"}

SeedRows(d, k) == {r \in d.rows[AppInfo] : r.key = k}
NonSeedRows(d) == {r \in d.rows[AppInfo] : r.key \notin SeedKeys}
KeyValues(d) == {<<r.key, r.value>> : r \in d.rows[AppInfo]}
SeedsCurrent(d) ==
    \A i \in DOMAIN Seeds :
        \E r \in d.rows[AppInfo] : r.key = Seeds[i].key /\ r.value = Seeds[i].value

\* The engine reserves the names that begin with sqlite_ for its own tables.
ReservedPrefix == <<"s","q","l","i","t","e","_">>
IsInternal(name) ==
    /\ Len(name) >= Len(ReservedPrefix)
    /\ \A i \in DOMAIN ReservedPrefix : Lower(name[i]) = ReservedPrefix[i]
UserTables(d) == {o \in d.master : o.type = "table" /\ ~IsInternal(o.name)}

\* C1: once an invocation has run to completion, a further invocation fails
\* only when the environment makes an sqlite3 call fail (never because of what
\* the file already holds), and no step of it changes the set of tables and
\* indexes of the file.
C1_SchemaIdempotent ==
    /\ [](goodRuns >= 1 /\ pc = "aborted" => faulted)
    /\ [][goodRuns >= 1 => db'.master = db.master]_vars
C1_Witness ==
    /\ pc = "done"
    /\ goodRuns = 2
    /\ HasIndex(db, IdxTimestamp)
    /\ HasIndex(db, IdxRoute)
    /\ \A t \in SchemaTables : HasTable(db, t)

\* C2: when _create_schema has returned, app_info holds exactly one row for
\* each of the four seed keys, and its value is the hardcoded one, whatever
\* app_info held before.
C2_SeedRowsExact ==
    SchemaApplied =>
        \A i \in DOMAIN Seeds :
            /\ Cardinality(SeedRows(db, Seeds[i].key)) = 1
            /\ \A r \in SeedRows(db, Seeds[i].key) : r.value = Seeds[i].value
C2_Witness ==
    /\ SchemaApplied
    /\ run = 1
    /\ \E r \in db.rows[AppInfo] : r.key = "theme"
    /\ \E r \in db.rows[AppInfo] : r.key = "author" /\ r.value = "John Doe" /\ r.id > 3

\* C3: in a read-only container directory a run is never aborted by the
\* writing of the helper files: it aborts on database errors only, and when it
\* completes it has printed a warning and the success report.
C3_ReadOnlyDirCompletes ==
    dirReadOnly =>
        /\ pc = "aborted" => exc \in {"connect_schema", "schema", "connect_stats", "stats"}
        /\ pc = "done" => warnings >= 1 /\ success

\* C4: no step changes a row of users, a row of request_logs or a row of
\* app_info whose key is not a seed key.
C4_Frame ==
    [][ /\ db'.rows[Users] = db.rows[Users]
        /\ db'.rows[RequestLogs] = db.rows[RequestLogs]
        /\ NonSeedRows(db') = NonSeedRows(db) ]_vars
C4_Witness ==
    /\ pc = "done"
    /\ db.rows[Users] # {}
    /\ db.rows[RequestLogs] # {}
    /\ NonSeedRows(db) # {}
    /\ SeedsCurrent(db)

\* C5: never two connections open at once, and none open when main() has
\* returned or let an exception out.
C5_ConnectionsReleased ==
    /\ Cardinality(open) <= 1
    /\ pc \in {"done", "aborted"} => open = {}

\* C6 (as claimed): after any failed sqlite3 call the run is on its way out,
\* and the success report is not printed.
C6_AnyConnectionErrorFatal ==
    faulted => pc \in {"schema_finally", "stats_finally", "aborted"} /\ ~success
\* C6 (amended): an exception raised outside the accessibility check takes the
\* run out without the success report; one raised inside the accessibility
\* check has been answered by a warning.
C6_ErrorsOutsideCheckFatal ==
    /\ exc # "none" => pc \in {"schema_finally", "stats_finally", "aborted"} /\ ~success
    /\ checkFailed => warnings >= 1 /\ existed
C6_Witness ==
    /\ pc = "aborted"
    /\ exc = "connect_stats"
    /\ checkFailed

\* C7 (as claimed): a completed run has opened exactly two connections.
C7_TwoConnections ==
    pc = "done" => connectCalls = 2 /\ opened = 2
\* C7 (amended): a completed run has called _connect twice when the file did
\* not exist at line 151 and three times when it did; it has opened two
\* connections in the first case, and three in the second unless the
\* accessibility check failed.
C7_ConnectionsPerRun ==
    pc = "done" =>
        /\ connectCalls = (IF existed THEN 3 ELSE 2)
        /\ ~existed => opened = 2
        /\ existed /\ ~checkFailed => opened = 3
        /\ opened \in {2, 3}
        /\ table_count >= 0 /\ logs_count >= 0
C7_Witness ==
    /\ pc = "done"
    /\ existed
    /\ opened = 3
    /\ connectCalls = 3

\* C8: when a statement of _create_schema has raised, the run goes out through
\* the finally: no statistics, no helper file written, no success report, and
\* the schema connection is closed when the exception has left main().
C8_SchemaErrorAborts ==
    exc = "schema" =>
        /\ pc \in {"schema_finally", "aborted"}
        /\ table_count = -1 /\ logs_count = -1
        /\ written = {}
        /\ ~success
        /\ pc = "aborted" => conn \notin open /\ ~inTx /\ work = db
C8_Witness ==
    /\ pc = "aborted"
    /\ exc = "schema"
    /\ files # {}
    /\ conn # 0

\* C9: the table count of the report is the number of tables of the file that
\* are not the engine's own.
C9_TableCountExact ==
    pc = "done" => table_count = Cardinality(UserTables(db))

\* C10 (as claimed): when app_info holds the four seed rows with the hardcoded
\* values, no step changes the rows of app_info.
C10_RowsIdentical ==
    [][SeedsCurrent(db) => db'.rows[AppInfo] = db.rows[AppInfo]]_vars
\* C10 (amended): when app_info holds the four seed rows with the hardcoded
\* values, every step leaves the keys, the values and the number of rows of
\* app_info as they were.
C10_KeyValuesIdentical ==
    [][SeedsCurrent(db) =>
          /\ KeyValues(db') = KeyValues(db)
          /\ Cardinality(db'.rows[AppInfo]) = Cardinality(db.rows[AppInfo])]_vars
C10_Witness ==
    /\ pc = "done"
    /\ goodRuns = 2
    /\ \A r \in db.rows[AppInfo] : r.key \in SeedKeys => r.created_at = now /\ r.id > 4

====
